---- MODULE Spec2Model ----
(***************************************************************************)
(* A model of ui_simulator.py: ProSetting (a clamped, directionally        *)
(* adjusted value), SimulatorState (cursor, values, two timestamps) and    *)
(* BaseSimulator (the running flag, the non-reentrant _timeout_lock, the    *)
(* watchdog threads running _check_timeout, and the caller threads that    *)
(* call start, stop and handle_input).                                     *)
(*                                                                         *)
(* Values are integers counted in grains (a grain is the smallest          *)
(* difference between two bounds, defaults or increments of the catalog);  *)
(* the code stores them as floats.  Time is an integer number of           *)
(* time-units read from one clock, now.                                    *)
(***************************************************************************)
EXTENDS Integers, Sequences, FiniteSets, TLC

\* ------------------------------------------------------------------ bounds
MaxTime == 35          \* the clock stops advancing here
TickStep == 5          \* the clock advances by this much in one step
MaxWatchdogs == 2      \* threads start() may create in one run
Span == 2              \* SettingSpec: bounds and defaults of a range lie in -Span..Span
MaxInc == 2            \* SettingSpec: largest increment of a range

\* ------------------------------------------------------- program constants
INPUT_TIMEOUT == 10    \* is_timed_out: current_time - last_input_time > 10
MAX_DURATION == 30     \* is_timed_out: current_time - start_time > 30

UP == "Up"
DOWN == "Down"
LEFT == "Left"
RIGHT == "Right"
SimulatorInput == {UP, DOWN, LEFT, RIGHT}

REASON_INPUT == "No input received for 10 seconds"
REASON_DURATION == "UI open for more than 30 seconds"

\* The settings whose direction adjust() inverts.
InvertedNames == {"front_power_distrib", "front_brake_balance"}

\* SettingRange(min_value, max_value, increment, default_value) with the name
\* of the ProSetting that owns it.
Setting(n, mn, mx, inc, df) ==
    [name |-> n, min_value |-> mn, max_value |-> mx, increment |-> inc,
     default_value |-> df]

\* ------------------------------------------------------------------ threads
\* The thread that calls start() and stop(), and the thread that delivers the
\* inputs (CLISimulator's main thread and its _key_thread).
Controllers == {1}
Inputters == {2}
Callers == Controllers \cup Inputters
Watchdogs == 11..(10 + MaxWatchdogs)
Threads == Callers \cup Watchdogs
FREE == 0

VARIABLES
    settings,            \* SimulatorState.settings: the ProSettings' names and ranges
    value,               \* ProSetting._current_value of each setting
    current_setting_index,
    last_input_time,
    start_time,
    now,                 \* time.time()
    running,             \* BaseSimulator.running
    lock,                \* holder of BaseSimulator._timeout_lock, or FREE
    timeout_thread,      \* BaseSimulator._timeout_thread (0 is None)
    pc,                  \* position of each thread
    arg,                 \* the input of each caller's handle_input in flight
    ret,                 \* the last value handle_input returned to each caller
    reason,              \* the reason each watchdog printed
    session_start,       \* history: the time of the last start() call (-1: none)
    steady,              \* history: since the last start() the clock never stood
                         \* INPUT_TIMEOUT or more past the last input
    trail,               \* SettingSpec: the last two adjust calls, oldest first
    settings_dict,       \* EncoderSpec: the target map given to CarSetup
    key_order,           \* EncoderSpec: the keys of the map in insertion order
    setup_settings,      \* CarSetup.settings: the CarSettings included, in order
    auto_skipped_settings,
    keystrokes,          \* what get_keystrokes returned for each included name
    script_lines,        \* the lines generate_ahk_script wrote that depend on the map
    epc,                 \* EncoderSpec: how far the conversion has come
    csv_rows,            \* LoadSpec: the rows of pro_settings_description.csv
    available_settings,  \* LoadSpec: the names given to BaseSimulator
    ranges,              \* BaseSimulator.ranges: what load_setting_ranges returned
    load_result,         \* LoadSpec: how the construction ended
    sims,                \* FleetSpec: the BaseSimulator instances
    answer,              \* FleetSpec: what the last query returned
    kind                 \* the class of the simulator: "base", "cli" or "gui"

stateVars == <<value, current_setting_index, last_input_time>>
encVars == <<settings_dict, key_order, setup_settings, auto_skipped_settings, keystrokes,
             script_lines, epc>>
auxVars == <<csv_rows, available_settings, ranges, load_result, sims, answer,
             kind>>
vars == <<settings, value, current_setting_index, last_input_time, start_time,
          now, running, lock, timeout_thread, pc, arg, ret, reason,
          session_start, steady, trail, encVars, auxVars>>

\* Nothing is loaded and no other instance exists (the specifications that
\* concern one session or one conversion).
NoAux ==
    /\ csv_rows = <<>>
    /\ available_settings = <<>>
    /\ ranges = <<>>
    /\ load_result = "none"
    /\ sims = <<>>
    /\ answer = "none"
    /\ kind = "base"

\* No conversion is under way (the specifications of the simulator).
NoConversion ==
    /\ settings_dict = <<>>
    /\ key_order = <<>>
    /\ setup_settings = <<>>
    /\ auto_skipped_settings = <<>>
    /\ keystrokes = <<>>
    /\ script_lines = <<>>
    /\ epc = "none"

\* ---------------------------------------------------------------- ProSetting

Max2(a, b) == IF a >= b THEN a ELSE b
Min2(a, b) == IF a <= b THEN a ELSE b

\* The current_value setter: max(min_value, min(max_value, value)).
Clamp(s, v) == Max2(s.min_value, Min2(s.max_value, v))

\* Mutant of Step: no setting is inverted.
Step_uninverted(s, v, d) ==
    IF d = RIGHT THEN v + s.increment ELSE v - s.increment

\* The unclamped new_value adjust() computes for LEFT or RIGHT.
Step(s, v, d) ==
    IF d = RIGHT
    THEN IF s.name \in InvertedNames THEN v - s.increment ELSE v + s.increment
    ELSE IF s.name \in InvertedNames THEN v + s.increment ELSE v - s.increment

\* ProSetting.adjust: the stored value after adjust(d) on a setting holding v.
AdjustValue(s, v, d) ==
    IF d \notin {LEFT, RIGHT} THEN v ELSE Clamp(s, Step(s, v, d))

\* ProSetting.adjust: the returned flag, old_value != self.current_value.
AdjustChanged(s, v, d) == v # AdjustValue(s, v, d)

\* ------------------------------------------------------------ SimulatorState

\* Mutant of NextIndex: navigation that wraps around the ends of the list.
NextIndexWrap(i, n, x) ==
    IF n = 0 THEN i
    ELSE IF x = UP THEN (i + n - 1) % n
    ELSE IF x = DOWN THEN (i + 1) % n
    ELSE i

\* The index after SimulatorState.handle_input(x) (0-based, as in the code).
NextIndex(i, n, x) ==
    IF x = UP THEN (IF i > 0 THEN i - 1 ELSE i)
    ELSE IF x = DOWN THEN (IF i < n - 1 THEN i + 1 ELSE i)
    ELSE i

\* The values after SimulatorState.handle_input(x): LEFT and RIGHT go to the
\* current setting's adjust, if there is a current setting.
NextValues(ss, vs, i, x) ==
    IF x \in {LEFT, RIGHT} /\ Len(ss) > 0
    THEN [vs EXCEPT ![i + 1] = AdjustValue(ss[i + 1], vs[i + 1], x)]
    ELSE vs

\* What SimulatorState.handle_input(x) returns.
InputChanged(ss, vs, i, x) ==
    IF x \in {UP, DOWN} THEN NextIndex(i, Len(ss), x) # i
    ELSE IF Len(ss) > 0 THEN AdjustChanged(ss[i + 1], vs[i + 1], x)
    ELSE FALSE

\* Mutant of is_timed_out: the age test comes first.
is_timed_out_age_first(t, lit, st) ==
    IF t - st > MAX_DURATION THEN <<TRUE, REASON_DURATION>>
    ELSE IF t - lit > INPUT_TIMEOUT THEN <<TRUE, REASON_INPUT>>
    ELSE <<FALSE, "">>

\* SimulatorState.is_timed_out: <<flag, reason>>.
is_timed_out(t, lit, st) ==
    IF t - lit > INPUT_TIMEOUT THEN <<TRUE, REASON_INPUT>>
    ELSE IF t - st > MAX_DURATION THEN <<TRUE, REASON_DURATION>>
    ELSE <<FALSE, "">>

\* --------------------------------------------------------------- the session

\* The settings lists a session is built with in Spec: the recognized names of
\* available_settings, in the order given (BaseSimulator.__init__).
FinalDrive == Setting("final_drive", -1, 0, 1, 0)
FrontPowerDistrib == Setting("front_power_distrib", 3, 5, 1, 4)
SessionSettings == { <<>>, <<FinalDrive, FrontPowerDistrib>> }

\* ProSetting.__init__: _current_value = default_value (not clamped).
DefaultValues(ss) == [i \in 1..Len(ss) |-> ss[i].default_value]

\* BaseSimulator.__init__ and SimulatorState.__init__.
Init ==
    /\ settings \in SessionSettings
    /\ value = DefaultValues(settings)
    /\ current_setting_index = 0
    /\ now = 0
    /\ last_input_time = 0
    /\ start_time = 0
    /\ running = FALSE
    /\ lock = FREE
    /\ timeout_thread = 0
    /\ pc = [t \in Threads |-> IF t \in Callers THEN "idle" ELSE "unborn"]
    /\ arg = [c \in Inputters |-> UP]
    /\ ret = [c \in Inputters |-> "none"]
    /\ reason = [w \in Watchdogs |-> ""]
    /\ session_start = -1
    /\ steady = TRUE
    /\ trail = <<>>
    /\ NoConversion
    /\ NoAux

\* threading.Thread.is_alive.
is_alive(w) == pc[w] \notin {"unborn", "done"}

Unborn == {w \in Watchdogs : pc[w] = "unborn"}
NewThread == CHOOSE w \in Unborn : \A u \in Unborn : w <= u

\* time.time() advances.
Tick ==
    /\ now + TickStep <= MaxTime
    /\ now' = now + TickStep
    /\ steady' = IF session_start >= 0
                 THEN steady /\ (now' - Max2(last_input_time, session_start)
                                    < INPUT_TIMEOUT)
                 ELSE steady
    /\ UNCHANGED <<settings, value, current_setting_index, last_input_time,
                   start_time, running, lock, timeout_thread, pc, arg, ret,
                   reason, session_start, trail, encVars, auxVars>>

\* A caller calls start() and reaches "with self._timeout_lock".
start_call(c) ==
    /\ pc[c] = "idle"
    /\ Cardinality(Unborn) > Cardinality({d \in Callers : pc[d] = "start_lock"})
    /\ pc' = [pc EXCEPT ![c] = "start_lock"]
    /\ UNCHANGED <<settings, value, current_setting_index, last_input_time,
                   start_time, now, running, lock, timeout_thread, arg, ret,
                   reason, session_start, steady, trail, encVars, auxVars>>

\* start(): the critical section; it does not block, so the lock is taken and
\* released in the one step.
start(c) ==
    /\ pc[c] = "start_lock"
    /\ lock = FREE
    /\ running' = TRUE
    /\ timeout_thread' = NewThread
    /\ session_start' = now
    /\ steady' = TRUE
    /\ pc' = [pc EXCEPT ![c] = "idle", ![NewThread] = "loop"]
    /\ UNCHANGED <<settings, value, current_setting_index, last_input_time,
                   start_time, now, lock, arg, ret, reason, trail, encVars, auxVars>>

\* A caller calls stop() and reaches "with self._timeout_lock".
stop_call(c) ==
    /\ pc[c] = "idle"
    /\ pc' = [pc EXCEPT ![c] = "stop_lock"]
    /\ UNCHANGED <<settings, value, current_setting_index, last_input_time,
                   start_time, now, running, lock, timeout_thread, arg, ret,
                   reason, session_start, steady, trail, encVars, auxVars>>

\* Mutant of stop: the running flag is not consulted.
stop_unguarded(c) ==
    /\ pc[c] = "stop_lock"
    /\ lock = FREE
    /\ running' = FALSE
    /\ IF timeout_thread # 0 /\ is_alive(timeout_thread)
       THEN /\ lock' = c
            /\ pc' = [pc EXCEPT ![c] = "stop_join"]
       ELSE /\ lock' = FREE
            /\ pc' = [pc EXCEPT ![c] = "idle"]
    /\ UNCHANGED <<settings, value, current_setting_index, last_input_time,
                   start_time, now, timeout_thread, arg, ret, reason,
                   session_start, steady, trail, encVars, auxVars>>

\* stop(): takes the lock; if running, clears the flag and, when the watchdog
\* thread is alive, joins it with the lock still held.
stop(c) ==
    /\ pc[c] = "stop_lock"
    /\ lock = FREE
    /\ IF running
       THEN /\ running' = FALSE
            /\ IF timeout_thread # 0 /\ is_alive(timeout_thread)
               THEN /\ lock' = c
                    /\ pc' = [pc EXCEPT ![c] = "stop_join"]
               ELSE /\ lock' = FREE
                    /\ pc' = [pc EXCEPT ![c] = "idle"]
       ELSE /\ running' = running
            /\ lock' = FREE
            /\ pc' = [pc EXCEPT ![c] = "idle"]
    /\ UNCHANGED <<settings, value, current_setting_index, last_input_time,
                   start_time, now, timeout_thread, arg, ret, reason,
                   session_start, steady, trail, encVars, auxVars>>

\* join(timeout=1) returns: the thread ended or the second elapsed; the with
\* block ends and releases the lock.
stop_join(c) ==
    /\ pc[c] = "stop_join"
    /\ lock' = FREE
    /\ pc' = [pc EXCEPT ![c] = "idle"]
    /\ UNCHANGED <<settings, value, current_setting_index, last_input_time,
                   start_time, now, running, timeout_thread, arg, ret, reason,
                   session_start, steady, trail, encVars, auxVars>>

\* Mutant of handle_input: the running flag is not consulted.
handle_input_unchecked(c, x) ==
    /\ pc[c] = "idle"
    /\ pc' = [pc EXCEPT ![c] = "apply"]
    /\ arg' = [arg EXCEPT ![c] = x]
    /\ ret' = [ret EXCEPT ![c] = "none"]
    /\ UNCHANGED <<settings, value, current_setting_index, last_input_time,
                   start_time, now, running, lock, timeout_thread, reason,
                   session_start, steady, trail, encVars, auxVars>>

\* BaseSimulator.handle_input(x), the call and "if not self.running: return
\* False": no lock is taken.
handle_input(c, x) ==
    /\ pc[c] = "idle"
    /\ IF ~running
       THEN /\ ret' = [ret EXCEPT ![c] = "False"]
            /\ UNCHANGED <<pc, arg>>
       ELSE /\ pc' = [pc EXCEPT ![c] = "apply"]
            /\ arg' = [arg EXCEPT ![c] = x]
            /\ ret' = [ret EXCEPT ![c] = "none"]
    /\ UNCHANGED <<settings, value, current_setting_index, last_input_time,
                   start_time, now, running, lock, timeout_thread, reason,
                   session_start, steady, trail, encVars, auxVars>>

\* Mutant of state_handle_input: last_input_time is updated only by an input
\* that changes the state.
state_handle_input_lazy(c) ==
    /\ pc[c] = "apply"
    /\ last_input_time' =
           IF InputChanged(settings, value, current_setting_index, arg[c])
           THEN now ELSE last_input_time
    /\ current_setting_index' =
           NextIndex(current_setting_index, Len(settings), arg[c])
    /\ value' = NextValues(settings, value, current_setting_index, arg[c])
    /\ ret' = [ret EXCEPT ![c] =
                  IF InputChanged(settings, value, current_setting_index, arg[c])
                  THEN "True" ELSE "False"]
    /\ pc' = [pc EXCEPT ![c] = "idle"]
    /\ arg' = [arg EXCEPT ![c] = UP]
    /\ UNCHANGED <<settings, start_time, now, running, lock, timeout_thread,
                   reason, session_start, steady, trail, encVars, auxVars>>

\* Mutant of state_handle_input: a LEFT or RIGHT that leaves the value where
\* it was does not update last_input_time.
state_handle_input_skip_noop(c) ==
    /\ pc[c] = "apply"
    /\ last_input_time' =
           IF arg[c] \in {LEFT, RIGHT}
              /\ ~InputChanged(settings, value, current_setting_index, arg[c])
           THEN last_input_time ELSE now
    /\ current_setting_index' =
           NextIndex(current_setting_index, Len(settings), arg[c])
    /\ value' = NextValues(settings, value, current_setting_index, arg[c])
    /\ ret' = [ret EXCEPT ![c] =
                  IF InputChanged(settings, value, current_setting_index, arg[c])
                  THEN "True" ELSE "False"]
    /\ pc' = [pc EXCEPT ![c] = "idle"]
    /\ arg' = [arg EXCEPT ![c] = UP]
    /\ UNCHANGED <<settings, start_time, now, running, lock, timeout_thread,
                   reason, session_start, steady, trail, encVars, auxVars>>

\* "return self.state.handle_input(input_type)": SimulatorState.handle_input.
state_handle_input(c) ==
    /\ pc[c] = "apply"
    /\ last_input_time' = now
    /\ current_setting_index' =
           NextIndex(current_setting_index, Len(settings), arg[c])
    /\ value' = NextValues(settings, value, current_setting_index, arg[c])
    /\ ret' = [ret EXCEPT ![c] =
                  IF InputChanged(settings, value, current_setting_index, arg[c])
                  THEN "True" ELSE "False"]
    /\ pc' = [pc EXCEPT ![c] = "idle"]
    /\ arg' = [arg EXCEPT ![c] = UP]
    /\ UNCHANGED <<settings, start_time, now, running, lock, timeout_thread,
                   reason, session_start, steady, trail, encVars, auxVars>>

\* _check_timeout: "while self.running", read without the lock (after the
\* sleep of the previous round).
check_loop(w) ==
    /\ pc[w] = "loop"
    /\ pc' = [pc EXCEPT ![w] = IF running THEN "lock" ELSE "done"]
    /\ UNCHANGED <<settings, value, current_setting_index, last_input_time,
                   start_time, now, running, lock, timeout_thread, arg, ret,
                   reason, session_start, steady, trail, encVars, auxVars>>

\* Mutant of _check_timeout: the timeout callback is called on every round,
\* whatever is_timed_out returns.
_check_timeout_eager(w) ==
    /\ pc[w] = "lock"
    /\ lock = FREE
    /\ IF ~running
       THEN /\ pc' = [pc EXCEPT ![w] = "done"]
            /\ UNCHANGED <<lock, reason>>
       ELSE /\ reason' = [reason EXCEPT ![w] = REASON_INPUT]
            /\ lock' = w
            /\ pc' = [pc EXCEPT ![w] = "handle_timeout"]
    /\ UNCHANGED <<settings, value, current_setting_index, last_input_time,
                   start_time, now, running, timeout_thread, arg, ret,
                   session_start, steady, trail, encVars, auxVars>>

\* _check_timeout: the body of "with self._timeout_lock": break if not
\* running; on a timeout print the reason and call handle_timeout with the
\* lock held; otherwise release the lock and sleep.
_check_timeout(w) ==
    /\ pc[w] = "lock"
    /\ lock = FREE
    /\ IF ~running
       THEN /\ pc' = [pc EXCEPT ![w] = "done"]
            /\ UNCHANGED <<lock, reason>>
       ELSE IF is_timed_out(now, last_input_time, start_time)[1]
            THEN /\ reason' = [reason EXCEPT ![w] =
                        is_timed_out(now, last_input_time, start_time)[2]]
                 /\ lock' = w
                 /\ pc' = [pc EXCEPT ![w] = "handle_timeout"]
            ELSE /\ pc' = [pc EXCEPT ![w] = "loop"]
                 /\ UNCHANGED <<lock, reason>>
    /\ UNCHANGED <<settings, value, current_setting_index, last_input_time,
                   start_time, now, running, timeout_thread, arg, ret,
                   session_start, steady, trail, encVars, auxVars>>

\* handle_timeout: "with self._timeout_lock: self.running = False".  The lock
\* is a threading.Lock, not reentrant: a thread that requests it while holding
\* it waits forever ("deadlock"), the lock still held.  After the callback
\* the watchdog breaks out of its loop and ends.
handle_timeout(w) ==
    /\ pc[w] = "handle_timeout"
    /\ lock \in {FREE, w}
    /\ IF lock = w
       THEN /\ pc' = [pc EXCEPT ![w] = "deadlock"]
            /\ UNCHANGED <<running, lock>>
       ELSE /\ running' = FALSE
            /\ lock' = FREE
            /\ pc' = [pc EXCEPT ![w] = "done"]
    /\ UNCHANGED <<settings, value, current_setting_index, last_input_time,
                   start_time, now, timeout_thread, arg, ret, reason,
                   session_start, steady, trail, encVars, auxVars>>

Next ==
    \/ Tick
    \/ \E c \in Controllers :
          \/ start_call(c)
          \/ start(c)
          \/ stop_call(c)
          \/ stop(c)
          \/ stop_join(c)
    \/ \E c \in Inputters :
          \/ \E x \in SimulatorInput : handle_input(c, x)
          \/ state_handle_input(c)
    \/ \E w \in Watchdogs :
          \/ check_loop(w)
          \/ _check_timeout(w)
          \/ handle_timeout(w)

Spec == Init /\ [][Next]_vars


\* ------------------------------------------------- one ProSetting on its own

\* The ranges of SettingSpec: SettingRange accepts any numbers, and
\* load_setting_ranges takes min_value and max_value from a row as written
\* ("60% to 20%" gives min_value 0.6, max_value 0.2) and a default that need
\* not lie between them.
Ranges ==
    { Setting(n, mn, mx, inc, df) :
          n \in {"final_drive", "front_power_distrib", "front_brake_balance"},
          mn \in (0 - Span)..Span, mx \in (0 - Span)..Span,
          inc \in 1..MaxInc, df \in (0 - Span)..Span }

\* ProSetting(name, setting_range) for one range; no session is started.
SettingInit ==
    /\ \E s \in Ranges : settings = <<s>>
    /\ value = DefaultValues(settings)
    /\ current_setting_index = 0
    /\ now = 0
    /\ last_input_time = 0
    /\ start_time = 0
    /\ running = FALSE
    /\ lock = FREE
    /\ timeout_thread = 0
    /\ pc = [t \in Threads |-> IF t \in Callers THEN "idle" ELSE "unborn"]
    /\ arg = [c \in Inputters |-> UP]
    /\ ret = [c \in Inputters |-> "none"]
    /\ reason = [w \in Watchdogs |-> ""]
    /\ session_start = -1
    /\ steady = TRUE
    /\ trail = <<>>
    /\ NoConversion
    /\ NoAux

LastTwo(q) == IF Len(q) > 2 THEN Tail(q) ELSE q

\* ProSetting.adjust(d) called on the setting; trail keeps the call.
adjust(d) ==
    /\ value' = [value EXCEPT ![1] = AdjustValue(settings[1], value[1], d)]
    /\ trail' = LastTwo(Append(trail,
                   [before |-> value[1], dir |-> d,
                    after |-> AdjustValue(settings[1], value[1], d),
                    changed |-> AdjustChanged(settings[1], value[1], d)]))
    /\ UNCHANGED <<settings, current_setting_index, last_input_time, start_time,
                   now, running, lock, timeout_thread, pc, arg, ret, reason,
                   session_start, steady, encVars, auxVars>>

SettingNext == \E d \in SimulatorInput : adjust(d)

SettingSpec == SettingInit /\ [][SettingNext]_vars

Opposite(d) == IF d = LEFT THEN RIGHT ELSE LEFT

\* The positions a watchdog never leaves: its thread ended, or it waits for
\* the lock it holds itself.
Final == {"done", "deadlock"}

OneStart == Cardinality(Unborn) = MaxWatchdogs - 1

\* ------------------------------------------------- TCM_script_creator.py
\* The encoder's numbers are counted in grains of a quarter of 0.01, so that
\* quarters and halves of the smallest increment are whole numbers.
Hundredth == 4
One == 100 * Hundredth

\* all_settings of CarSetup.__init__: the canonical names in their order.
all_settings ==
    << "final_drive", "front_power_distrib", "grip_front", "grip_rear",
       "front_brake_balance", "brake_power", "load_front", "load_rear",
       "spring_front", "spring_rear", "compression_front", "compression_rear",
       "rebound_front", "rebound_rear", "arb_front", "arb_rear",
       "camber_front", "camber_rear" >>

CanonicalNames == { all_settings[i] : i \in 1..Len(all_settings) }

\* SETTING_INCREMENTS: 1 per tick, 0.01 for the two cambers.
SETTING_INCREMENTS ==
    [n \in CanonicalNames |->
        IF n \in {"camber_front", "camber_rear"} THEN Hundredth ELSE One]

\* SETTING_DEFAULTS: the fixed starts 60 and 80.
SETTING_DEFAULTS ==
    [n \in {"front_power_distrib", "front_brake_balance"} |->
        IF n = "front_power_distrib" THEN 60 * One ELSE 80 * One]

\* CarSetting(name, value, increment, is_delta).
CarSetting(n, v, inc, delta) ==
    [name |-> n, value |-> v, increment |-> inc, is_delta |-> delta]

\* Python's round(n / d) for d > 0: the nearest integer, a tie going to the
\* even one.
round(n, d) ==
    LET q == n \div d
        r == n % d
    IN IF 2 * r < d THEN q
       ELSE IF 2 * r > d THEN q + 1
       ELSE IF q % 2 = 0 THEN q ELSE q + 1

\* [key] * count.
Repeat(key, count) == [i \in 1..count |-> key]

Abs(n) == IF n < 0 THEN 0 - n ELSE n

\* Mutant of get_keystrokes: every setting is counted as the fixed-start
\* settings are, "Right" for a target below the start.
get_keystrokes_right_lowers(cs) ==
    LET ticks == round((IF cs.name \in DOMAIN SETTING_DEFAULTS
                        THEN SETTING_DEFAULTS[cs.name] ELSE 0) - cs.value,
                       cs.increment)
    IN IF ticks > 0 THEN Repeat(RIGHT, ticks)
       ELSE IF ticks < 0 THEN Repeat(LEFT, Abs(ticks))
       ELSE <<>>

\* Mutant of get_keystrokes: SETTING_DEFAULTS is not consulted, every target
\* is counted from zero.
get_keystrokes_from_zero(cs) ==
    IF cs.value = 0 THEN <<>>
    ELSE LET ticks == round(cs.value, cs.increment)
         IN Repeat(IF ticks > 0 THEN RIGHT ELSE LEFT, Abs(ticks))

\* CarSetting.get_keystrokes.
get_keystrokes(cs) ==
    IF cs.name \in DOMAIN SETTING_DEFAULTS
    THEN LET ticks == round(SETTING_DEFAULTS[cs.name] - cs.value, cs.increment)
         IN IF ticks > 0 THEN Repeat(RIGHT, ticks)
            ELSE IF ticks < 0 THEN Repeat(LEFT, Abs(ticks))
            ELSE <<>>
    ELSE IF cs.value = 0 THEN <<>>
    ELSE LET ticks == round(cs.value, cs.increment)
         IN Repeat(IF ticks > 0 THEN RIGHT ELSE LEFT, Abs(ticks))

\* CarSetup.__init__: "if name in settings_dict and name in SETTING_INCREMENTS".
Included(dict, n) == n \in DOMAIN dict /\ n \in DOMAIN SETTING_INCREMENTS

\* Mutant of CarSetup_settings: the loop runs over the keys of the map, in
\* their insertion order.
CarSetup_settings_by_keys(dict) ==
    LET names == SelectSeq(key_order, LAMBDA n : Included(dict, n))
    IN [i \in 1..Len(names) |->
           CarSetting(names[i], dict[names[i]], SETTING_INCREMENTS[names[i]],
                      names[i] \notin DOMAIN SETTING_DEFAULTS)]

\* CarSetup.__init__: self.settings after the loop over all_settings.
CarSetup_settings(dict) ==
    LET names == SelectSeq(all_settings, LAMBDA n : Included(dict, n))
    IN [i \in 1..Len(names) |->
           CarSetting(names[i], dict[names[i]], SETTING_INCREMENTS[names[i]],
                      names[i] \notin DOMAIN SETTING_DEFAULTS)]

\* Mutant of CarSetup_auto_skipped: every canonical name is listed.
CarSetup_auto_skipped_all(dict) == all_settings

\* CarSetup.__init__: self.auto_skipped_settings after the loop.
CarSetup_auto_skipped(dict) ==
    SelectSeq(all_settings, LAMBDA n : ~Included(dict, n))

\* The lines of the script, as <<kind, text>>.
SkippedLine(n) == <<"; -", n>>
AdjustingLine(n) == <<"; Adjusting", n>>
SendLine(key) == <<"Send", key>>

\* generate_ahk_script: the loop over self.settings, entered with needs_down.
RECURSIVE ScriptBody(_, _)
ScriptBody(ss, needs_down) ==
    IF ss = <<>> THEN <<>>
    ELSE LET ks == get_keystrokes(Head(ss))
         IN IF Len(ks) > 0
            THEN <<AdjustingLine(Head(ss).name)>>
                 \o (IF needs_down THEN <<SendLine(DOWN)>> ELSE <<>>)
                 \o [i \in 1..Len(ks) |-> SendLine(ks[i])]
                 \o ScriptBody(Tail(ss), TRUE)
            ELSE ScriptBody(Tail(ss), needs_down)

\* ------------------------------------------------------ the conversion
MaxQ == 10             \* targets lie within MaxQ quarter-increments of the start

\* The keys a target map may have, and the targets: the value the encoder
\* starts from plus or minus some quarters of the setting's increment.
MapKeys == {"final_drive", "front_power_distrib", "camber_rear"}
StartValue(n) == IF n \in DOMAIN SETTING_DEFAULTS THEN SETTING_DEFAULTS[n] ELSE 0
CanonicalMaps ==
    UNION { { [n \in K |->
                 StartValue(n) + o[n] * (SETTING_INCREMENTS[n] \div Hundredth)] :
              o \in [K -> (0 - MaxQ)..MaxQ] } :
            K \in SUBSET MapKeys }

\* A key as a sheet's column header spells it, with its target.
RawKey == "Final Drive"
RawTarget == 0 - 2 * One
TargetMaps ==
    CanonicalMaps
    \cup { [n \in DOMAIN m \cup {RawKey} |->
               IF n = RawKey THEN RawTarget ELSE m[n]] : m \in CanonicalMaps }

\* The insertion orders of a map's keys: the canonical names in catalog
\* order and then the other keys, or that order reversed.
Reverse(seq) == [i \in 1..Len(seq) |-> seq[Len(seq) + 1 - i]]
KeyOrders(m) ==
    LET fwd == SelectSeq(all_settings, LAMBDA n : n \in DOMAIN m)
               \o (IF RawKey \in DOMAIN m THEN <<RawKey>> ELSE <<>>)
    IN {fwd, Reverse(fwd)}

\* The live session the keystrokes are replayed into: the ranges
\* load_setting_ranges builds from the rows "-20% to 0%" and "60% to 20%",
\* in grains (0.01 is Hundredth grains).
LiveFinalDrive ==
    Setting("final_drive", 0 - 20 * Hundredth, 0, Hundredth, 0)
LiveFrontPowerDistrib ==
    Setting("front_power_distrib", 60 * Hundredth, 20 * Hundredth, Hundredth,
            40 * Hundredth)
LiveSettings == <<LiveFinalDrive, LiveFrontPowerDistrib>>

\* A target map arrives; the live settings stand at their defaults.
EncoderInit ==
    /\ settings_dict \in TargetMaps
    /\ key_order \in KeyOrders(settings_dict)
    /\ setup_settings = <<>>
    /\ auto_skipped_settings = <<>>
    /\ keystrokes = <<>>
    /\ script_lines = <<>>
    /\ epc = "map"
    /\ settings = LiveSettings
    /\ value = DefaultValues(settings)
    /\ current_setting_index = 0
    /\ now = 0
    /\ last_input_time = 0
    /\ start_time = 0
    /\ running = FALSE
    /\ lock = FREE
    /\ timeout_thread = 0
    /\ pc = [t \in Threads |-> IF t \in Callers THEN "idle" ELSE "unborn"]
    /\ arg = [c \in Inputters |-> UP]
    /\ ret = [c \in Inputters |-> "none"]
    /\ reason = [w \in Watchdogs |-> ""]
    /\ session_start = -1
    /\ steady = TRUE
    /\ trail = <<>>
    /\ NoAux

simVars == <<current_setting_index, last_input_time, start_time, now, running,
             lock, timeout_thread, pc, arg, ret, reason, session_start, steady,
             trail>>

\* CarSetup(settings_dict).
CarSetup ==
    /\ epc = "map"
    /\ setup_settings' = CarSetup_settings(settings_dict)
    /\ auto_skipped_settings' = CarSetup_auto_skipped(settings_dict)
    /\ epc' = "setup"
    /\ UNCHANGED <<settings_dict, key_order, keystrokes, script_lines, settings, value,
                   simVars, auxVars>>

\* setup.generate_ahk_script(): the comments for the skipped settings, then
\* the block of each setting that has keystrokes.  The fixed lines before,
\* between and after them are left out.
generate_ahk_script ==
    /\ epc = "setup"
    /\ keystrokes' =
           [n \in { setup_settings[i].name : i \in 1..Len(setup_settings) } |->
               get_keystrokes(
                   CHOOSE cs \in { setup_settings[i] : i \in 1..Len(setup_settings) } :
                       cs.name = n)]
    /\ script_lines' =
           [i \in 1..Len(auto_skipped_settings) |->
               SkippedLine(auto_skipped_settings[i])]
           \o ScriptBody(setup_settings, FALSE)
    /\ epc' = "script"
    /\ UNCHANGED <<settings_dict, key_order, setup_settings, auto_skipped_settings,
                   settings, value, simVars, auxVars>>

\* The value of setting s after the keys ks, sent one at a time from v.
RECURSIVE ReplayKeys(_, _, _)
ReplayKeys(s, v, ks) ==
    IF ks = <<>> THEN v
    ELSE ReplayKeys(s, AdjustValue(s, v, Head(ks)), Tail(ks))

\* The keystrokes of each included setting are sent to the live ProSetting
\* of that name, which stands at its default.
replay_keystrokes ==
    /\ epc = "script"
    /\ value' =
           [i \in 1..Len(settings) |->
               IF settings[i].name \in DOMAIN keystrokes
               THEN ReplayKeys(settings[i], value[i],
                               keystrokes[settings[i].name])
               ELSE value[i]]
    /\ epc' = "replayed"
    /\ UNCHANGED <<settings_dict, key_order, setup_settings, auto_skipped_settings,
                   keystrokes, script_lines, settings, simVars, auxVars>>

EncoderNext == CarSetup \/ generate_ahk_script \/ replay_keystrokes

EncoderSpec == EncoderInit /\ [][EncoderNext]_vars

\* ------------------------------------- load_setting_ranges and __init__
MaxRows == 2           \* rows of the CSV file after the header

\* name.lower().replace(" ", "_") for the names that occur.
lower_underscore(name) ==
    CASE name \in {"Final Drive", "FINAL_DRIVE", "final drive"} -> "final_drive"
      [] name \in {"Grip Front", "GRIP_FRONT"} -> "grip_front"
      [] name = "Power Distribution" -> "power_distribution"
      [] name = "Brake Balance" -> "brake_balance"
      [] name = "Front Power Distrib" -> "front_power_distrib"
      [] OTHER -> name

\* One piece of the 'Possible Values' text after split(" to "): a number
\* with or without "%", or text float() does not accept.
Pct(n) == [numeric |-> TRUE, val |-> n]
Junk == [numeric |-> FALSE, val |-> 0]

\* The texts of the 'Possible Values' column that occur, split on " to ".
RangeTexts ==
    { <<Pct(-20), Pct(0)>>, <<Pct(60), Pct(20)>>, <<Pct(80), Pct(40)>>,
      <<Pct(20), Pct(40)>>, <<Junk, Pct(0)>>, <<Pct(-20)>>,
      <<Pct(-20), Pct(0), Pct(5)>> }

\* A row as csv.DictReader gives it: a short line leaves the fields after
\* its last one None (has_values, has_description FALSE).
Row(n, hv, p, hd) ==
    [name |-> n, has_values |-> hv, parts |-> p, has_description |-> hd]
\* The display names of the first column: the two special settings under the
\* name the loader renames and under their canonical name.
RowNames ==
    {"Final Drive", "Power Distribution", "Brake Balance", "Front Power Distrib"}

Rows ==
    { Row(n, TRUE, p, hd) : n \in RowNames, p \in RangeTexts, hd \in BOOLEAN }
    \cup { Row(n, FALSE, <<>>, FALSE) : n \in RowNames }

\* The body of the try block for one row: the SettingRange it stores, in
\* hundredths (float(text) / 100 of a whole percentage).
RowName(row) ==
    IF lower_underscore(row.name) = "power_distribution" THEN "front_power_distrib"
    ELSE IF lower_underscore(row.name) = "brake_balance" THEN "front_brake_balance"
    ELSE lower_underscore(row.name)
RowRange(row) ==
    Setting(RowName(row), row.parts[1].val, row.parts[2].val, 1,
            IF lower_underscore(row.name) \in {"power_distribution", "brake_balance"}
            THEN 40 ELSE 0)

\* What the try block does with a row: .strip() of a field that is None
\* raises AttributeError, which is not caught; a text that does not unpack
\* into two pieces, or a piece float() rejects, raises ValueError, which is
\* caught and the row skipped.
RowOutcome(row) ==
    IF ~row.has_values \/ ~row.has_description THEN "AttributeError"
    ELSE IF Len(row.parts) # 2 THEN "skipped"
    ELSE IF ~row.parts[1].numeric \/ ~row.parts[2].numeric THEN "skipped"
    ELSE "stored"

\* The loop over the rows, entered with the dictionary rs; then
\* "if not ranges: raise ValueError".
RECURSIVE LoadRows(_, _)
LoadRows(rows, rs) ==
    IF rows = <<>>
    THEN IF DOMAIN rs = {} THEN [status |-> "ValueError", ranges |-> <<>>]
         ELSE [status |-> "returned", ranges |-> rs]
    ELSE IF RowOutcome(Head(rows)) = "AttributeError"
         THEN [status |-> "AttributeError", ranges |-> <<>>]
    ELSE IF RowOutcome(Head(rows)) = "skipped"
         THEN LoadRows(Tail(rows), rs)
    ELSE LoadRows(Tail(rows),
                  [n \in DOMAIN rs \cup {RowName(Head(rows))} |->
                      IF n = RowName(Head(rows)) THEN RowRange(Head(rows))
                      ELSE rs[n]])

load_setting_ranges(rows) == LoadRows(rows, <<>>)

\* The lists of names a simulator is constructed with.
AvailableLists ==
    { <<>>, <<"final_drive">>,
      <<"Final Drive", "front_power_distrib">>,
      <<"front_power_distrib", "final_drive">>,
      <<"final_drive", "FINAL_DRIVE">>,
      <<"front_brake_balance", "grip_front", "final_drive">> }

\* BaseSimulator.__init__: self.settings, one ProSetting for each given name
\* whose normalized form is a key of rs, in the order the names were given.
InitSettings(avail, rs) ==
    LET norm == [i \in 1..Len(avail) |-> lower_underscore(avail[i])]
        known == SelectSeq(norm, LAMBDA n : n \in DOMAIN rs)
    IN [i \in 1..Len(known) |-> rs[known[i]]]

\* A CSV file is in place; no simulator has been constructed.
LoadInit ==
    /\ csv_rows \in UNION { [1..k -> Rows] : k \in 0..MaxRows }
    /\ available_settings = <<>>
    /\ ranges = <<>>
    /\ load_result = "file"
    /\ sims = <<>>
    /\ answer = "none"
    /\ kind = "base"
    /\ settings = <<>>
    /\ value = <<>>
    /\ current_setting_index = 0
    /\ now = 0
    /\ last_input_time = 0
    /\ start_time = 0
    /\ running = FALSE
    /\ lock = FREE
    /\ timeout_thread = 0
    /\ pc = [t \in Threads |-> IF t \in Callers THEN "idle" ELSE "unborn"]
    /\ arg = [c \in Inputters |-> UP]
    /\ ret = [c \in Inputters |-> "none"]
    /\ reason = [w \in Watchdogs |-> ""]
    /\ session_start = -1
    /\ steady = TRUE
    /\ trail = <<>>
    /\ NoConversion

\* BaseSimulator(available_settings): load_setting_ranges() returns or
\* raises; when it returns, the ProSettings and the SimulatorState are built.
BaseSimulator_init(avail) ==
    /\ load_result = "file"
    /\ available_settings' = avail
    /\ load_result' = load_setting_ranges(csv_rows).status
    /\ ranges' = load_setting_ranges(csv_rows).ranges
    /\ IF load_setting_ranges(csv_rows).status = "returned"
       THEN /\ settings' = InitSettings(avail, load_setting_ranges(csv_rows).ranges)
            /\ value' = DefaultValues(settings')
       ELSE UNCHANGED <<settings, value>>
    /\ UNCHANGED <<csv_rows, sims, answer, kind, simVars, encVars>>

LoadNext == \E avail \in AvailableLists : BaseSimulator_init(avail)

LoadSpec == LoadInit /\ [][LoadNext]_vars

\* ------------------------------------------------------ several instances
FleetMaxTime == 12     \* FleetSpec: the clock stops at FleetMaxTime
FleetTickStep == 6     \* FleetSpec: the clock advances by FleetTickStep
MaxFleetThreads == 1   \* FleetSpec: watchdog threads one instance starts

Instances == {1, 2}

\* BaseSimulator.__init__ with SimulatorState.__init__: the fields of one
\* instance.  threads holds the position of every watchdog the instance has
\* started: "loop" (in _check_timeout, outside the lock), "handle_timeout"
\* (inside the lock, waiting for it a second time) or "done".
NewSimulator(ss) ==
    [settings |-> ss, value |-> DefaultValues(ss), current_setting_index |-> 0,
     last_input_time |-> now, start_time |-> now, running |-> FALSE,
     locked |-> FALSE, threads |-> <<>>]

\* The variables of the one-session specifications, which the
\* several-instance specification leaves at rest.
fleetFrame == <<settings, value, current_setting_index, last_input_time,
                start_time, running, lock, timeout_thread, pc, arg, ret,
                reason, session_start, steady, trail, encVars, csv_rows,
                available_settings, ranges, load_result, kind>>

\* Two simulators have been constructed, at time 0.
FleetInit ==
    /\ now = 0
    /\ sims \in [Instances -> { NewSimulator(ss) : ss \in SessionSettings }]
    /\ answer = "none"
    /\ kind = "base"
    /\ csv_rows = <<>>
    /\ available_settings = <<>>
    /\ ranges = <<>>
    /\ load_result = "none"
    /\ settings = <<>>
    /\ value = <<>>
    /\ current_setting_index = 0
    /\ last_input_time = 0
    /\ start_time = 0
    /\ running = FALSE
    /\ lock = FREE
    /\ timeout_thread = 0
    /\ pc = [t \in Threads |-> IF t \in Callers THEN "idle" ELSE "unborn"]
    /\ arg = [c \in Inputters |-> UP]
    /\ ret = [c \in Inputters |-> "none"]
    /\ reason = [w \in Watchdogs |-> ""]
    /\ session_start = -1
    /\ steady = TRUE
    /\ trail = <<>>
    /\ NoConversion

\* time.time() advances.
FleetTick ==
    /\ now + FleetTickStep <= FleetMaxTime
    /\ now' = now + FleetTickStep
    /\ UNCHANGED <<sims, answer, fleetFrame>>

\* BaseSimulator.start of instance i, from taking the lock to leaving it.
sim_start(i) ==
    /\ ~sims[i].locked
    /\ Len(sims[i].threads) < MaxFleetThreads
    /\ sims' = [sims EXCEPT ![i].running = TRUE,
                            ![i].threads = Append(@, "loop")]
    /\ UNCHANGED <<now, answer, fleetFrame>>

\* Mutant of sim_stop: running is one flag all instances share.
sim_stop_shared(i) ==
    /\ ~sims[i].locked
    /\ sims' = [j \in Instances |-> [sims[j] EXCEPT !.running = FALSE]]
    /\ UNCHANGED <<now, answer, fleetFrame>>

\* BaseSimulator.stop of instance i, from taking the lock to leaving it; the
\* join gives up after a second.
sim_stop(i) ==
    /\ ~sims[i].locked
    /\ sims' = [sims EXCEPT ![i].running = FALSE]
    /\ UNCHANGED <<now, answer, fleetFrame>>

\* BaseSimulator.handle_input(x) of instance i, with
\* SimulatorState.handle_input when the instance is running.
sim_handle_input(i, x) ==
    /\ sims' =
           IF ~sims[i].running THEN sims
           ELSE [sims EXCEPT
                    ![i].last_input_time = now,
                    ![i].current_setting_index =
                        NextIndex(@, Len(sims[i].settings), x),
                    ![i].value =
                        NextValues(sims[i].settings, @,
                                   sims[i].current_setting_index, x)]
    /\ UNCHANGED <<now, answer, fleetFrame>>

\* One turn of the loop of _check_timeout in watchdog k of instance i: the
\* thread ends when running is false; on a timeout it enters handle_timeout
\* with the lock held and waits there for the lock; otherwise it sleeps.
sim_check_timeout(i, k) ==
    /\ k \in 1..Len(sims[i].threads)
    /\ sims[i].threads[k] = "loop"
    /\ IF ~sims[i].running
       THEN sims' = [sims EXCEPT ![i].threads[k] = "done"]
       ELSE /\ ~sims[i].locked
            /\ IF is_timed_out(now, sims[i].last_input_time,
                               sims[i].start_time)[1]
               THEN sims' = [sims EXCEPT ![i].threads[k] = "handle_timeout",
                                         ![i].locked = TRUE]
               ELSE UNCHANGED sims
    /\ UNCHANGED <<now, answer, fleetFrame>>

\* What get_current_setting returns, with the name and current_value read
\* from it: None for an instance without settings.
CurrentSetting(sim) ==
    IF Len(sim.settings) = 0 THEN <<"None">>
    ELSE <<sim.settings[sim.current_setting_index + 1].name,
           sim.value[sim.current_setting_index + 1]>>

\* Mutant of get_current_setting: the query counts as an input.
get_current_setting_stamping(i) ==
    /\ answer' = <<i>> \o CurrentSetting(sims[i])
    /\ sims' = [sims EXCEPT ![i].last_input_time = now]
    /\ UNCHANGED <<now, fleetFrame>>

\* state.get_current_setting() of instance i and the reads of .name and
\* .current_value of its result.
get_current_setting(i) ==
    /\ answer' = <<i>> \o CurrentSetting(sims[i])
    /\ UNCHANGED <<sims, now, fleetFrame>>

FleetNext ==
    \/ FleetTick
    \/ \E i \in Instances : sim_start(i)
    \/ \E i \in Instances : sim_stop(i)
    \/ \E i \in Instances, x \in SimulatorInput : sim_handle_input(i, x)
    \/ \E i \in Instances, k \in 1..MaxFleetThreads : sim_check_timeout(i, k)
    \/ \E i \in Instances : get_current_setting(i)

FleetSpec == FleetInit /\ [][FleetNext]_vars

\* ------------------------------------------------- CLISimulator, GUISimulator
\* The session of a subclass: the simulator is a CLISimulator or a
\* GUISimulator with its settings.
FrontSettings == <<FinalDrive, FrontPowerDistrib>>

\* The scale of the slider of a setting: from one bound of its range to the
\* other.
Scale(s) ==
    Min2(s.min_value, s.max_value)..Max2(s.min_value, s.max_value)

FrontInit ==
    /\ settings = FrontSettings
    /\ value = DefaultValues(settings)
    /\ current_setting_index = 0
    /\ now = 0
    /\ last_input_time = 0
    /\ start_time = 0
    /\ running = FALSE
    /\ lock = FREE
    /\ timeout_thread = 0
    /\ pc = [t \in Threads |-> IF t \in Callers THEN "idle" ELSE "unborn"]
    /\ arg = [c \in Inputters |-> UP]
    /\ ret = [c \in Inputters |-> "none"]
    /\ reason = [w \in Watchdogs |-> ""]
    /\ session_start = -1
    /\ steady = TRUE
    /\ trail = <<>>
    /\ NoConversion
    /\ csv_rows = <<>>
    /\ available_settings = <<>>
    /\ ranges = <<>>
    /\ load_result = "none"
    /\ sims = <<>>
    /\ answer = "none"
    /\ kind \in {"cli", "gui"}

\* What the subclass's handle_input returns when BaseSimulator.handle_input
\* returned b: GUISimulator returns True or False, CLISimulator has no
\* return statement.
FrontReturn(b) == IF kind = "cli" THEN "None" ELSE IF b THEN "True" ELSE "False"

\* handle_input(x) of the subclass on entry: super().handle_input(x) returns
\* False at once when the simulator is not running.
front_handle_input(c, x) ==
    /\ pc[c] = "idle"
    /\ IF ~running
       THEN /\ ret' = [ret EXCEPT ![c] = FrontReturn(FALSE)]
            /\ UNCHANGED <<pc, arg>>
       ELSE /\ pc' = [pc EXCEPT ![c] = "apply"]
            /\ arg' = [arg EXCEPT ![c] = x]
            /\ ret' = [ret EXCEPT ![c] = "none"]
    /\ UNCHANGED <<settings, value, current_setting_index, last_input_time,
                   start_time, now, running, lock, timeout_thread, reason,
                   session_start, steady, trail, encVars, auxVars>>

\* The rest of handle_input(x) of the subclass: SimulatorState.handle_input,
\* the display of the result, and the return.
front_state_handle_input(c) ==
    /\ pc[c] = "apply"
    /\ last_input_time' = now
    /\ current_setting_index' =
           NextIndex(current_setting_index, Len(settings), arg[c])
    /\ value' = NextValues(settings, value, current_setting_index, arg[c])
    /\ ret' = [ret EXCEPT ![c] =
                  FrontReturn(InputChanged(settings, value,
                                           current_setting_index, arg[c]))]
    /\ pc' = [pc EXCEPT ![c] = "idle"]
    /\ arg' = [arg EXCEPT ![c] = UP]
    /\ UNCHANGED <<settings, start_time, now, running, lock, timeout_thread,
                   reason, session_start, steady, trail, encVars, auxVars>>

\* GUISimulator, update_value bound to the slider of setting k: the slider's
\* position v, anywhere on its scale, is written through the setter.
update_value(k, v) ==
    /\ kind = "gui"
    /\ running
    /\ v \in Scale(settings[k])
    /\ value' = [value EXCEPT ![k] = Clamp(settings[k], v)]
    /\ UNCHANGED <<settings, current_setting_index, last_input_time,
                   start_time, now, running, lock, timeout_thread, pc, arg,
                   ret, reason, session_start, steady, trail, encVars,
                   auxVars>>

FrontNext ==
    \/ Tick
    \/ \E c \in Controllers :
          \/ start_call(c)
          \/ start(c)
          \/ stop_call(c)
          \/ stop(c)
          \/ stop_join(c)
    \/ \E c \in Inputters :
          \/ \E x \in SimulatorInput : front_handle_input(c, x)
          \/ front_state_handle_input(c)
    \/ \E w \in Watchdogs :
          \/ check_loop(w)
          \/ _check_timeout(w)
          \/ handle_timeout(w)
    \/ \E k \in 1..Len(FrontSettings) :
          \E v \in UNION { Scale(FrontSettings[j]) :
                              j \in 1..Len(FrontSettings) } :
              update_value(k, v)

FrontSpec == FrontInit /\ [][FrontNext]_vars

\* ------------------------------------------------------------------ claims

\* C1: once running is false no later step changes current_setting_index, a
\* current_value or last_input_time; a handle_input in flight when the flag
\* flipped is not applied after the flip.
C1_NoMutationOnceClosed ==
    [][~running => UNCHANGED <<value, current_setting_index, last_input_time>>]_vars

\* C2: after start(), when no input has been delivered for more than 10
\* time-units, the watchdog detects the inactivity timeout and completes the
\* transition: a watchdog that reported the inactivity timeout and takes no
\* further step has left running false.
C2_InactivityCloses ==
    \A w \in Watchdogs :
        ( /\ pc[w] \in Final
          /\ reason[w] = REASON_INPUT
          /\ session_start >= 0
          /\ now - session_start > INPUT_TIMEOUT
          /\ now - last_input_time > INPUT_TIMEOUT ) => ~running

\* C3: after start(), with inputs arriving less than 10 time-units apart, once
\* more than 30 time-units have elapsed since the session started the
\* watchdog closes the session: a watchdog that reported the age timeout and
\* takes no further step has left running false.
C3_MaxDurationCloses ==
    \A w \in Watchdogs :
        ( /\ pc[w] \in Final
          /\ reason[w] = REASON_DURATION
          /\ session_start >= 0
          /\ steady
          /\ now - session_start > MAX_DURATION ) => ~running

\* C4: every call of stop() eventually returns: a stop() that waits for the
\* lock never waits for a holder that will never release it.
C4_StopReturns ==
    \A c \in Controllers :
        (pc[c] = "stop_lock" /\ lock # FREE) => pc[lock] # "deadlock"

\* C5: once running has changed from true to false it is never true again
\* (a session that was started and is not running is Closed).
C5_ClosedIsTerminal ==
    [][(~running /\ timeout_thread # 0) => ~running']_vars

\* C6: handle_input(x) on a session that is not running returns False at
\* once and changes no index, value or last_input_time.
C6_ClosedInputIgnored ==
    [][\A c \in Inputters : \A x \in SimulatorInput :
          (~running /\ handle_input(c, x)) =>
              /\ ret'[c] = "False"
              /\ pc'[c] = "idle"
              /\ UNCHANGED <<value, current_setting_index, last_input_time>>]_vars

\* C6 witness: a stopped session returned False to an input delivered after
\* the stop, and no input was ever applied.
C6_Witness ==
    \E c \in Inputters :
        /\ ~running /\ timeout_thread # 0
        /\ ret[c] = "False" /\ pc[c] = "idle"
        /\ Len(settings) > 0 /\ value = DefaultValues(settings)
        /\ current_setting_index = 0
        /\ last_input_time = 0 /\ session_start > 0

\* C7: after each LEFT or RIGHT adjustment the value lies in
\* [min_value, max_value], for every range.
C7_ValueInRange ==
    (trail # <<>> /\ trail[Len(trail)].dir \in {LEFT, RIGHT}) =>
        /\ settings[1].min_value <= value[1]
        /\ value[1] <= settings[1].max_value

\* C8: an adjustment that changed the value, followed at once by the opposite
\* input, returns the value to what it was; an adjustment that reports no
\* change left the value as it was.  Stated for the ranges with
\* min_value <= default_value <= max_value; the claim covers every range.
C8_Reversible ==
    ( /\ settings[1].min_value <= settings[1].default_value
      /\ settings[1].default_value <= settings[1].max_value
      /\ Len(trail) = 2
      /\ trail[1].dir \in {LEFT, RIGHT}
      /\ trail[2].dir = Opposite(trail[1].dir) ) =>
        /\ trail[1].changed => trail[2].after = trail[1].before
        /\ ~trail[1].changed => trail[1].after = trail[1].before

\* C9: navigation never wraps: UP at index 0 and DOWN at the last index leave
\* the index, otherwise UP and DOWN move it by exactly one; UP and DOWN change
\* no current_value.
C9_NoWrap ==
    [][\A c \in Inputters :
          (pc[c] = "apply" /\ pc'[c] = "idle" /\ arg[c] \in {UP, DOWN}) =>
              LET i == current_setting_index
                  n == Len(settings)
              IN /\ value' = value
                 /\ (arg[c] = UP /\ i = 0) => current_setting_index' = 0
                 /\ (arg[c] = UP /\ i > 0) => current_setting_index' = i - 1
                 /\ (arg[c] = DOWN /\ i = n - 1) => current_setting_index' = n - 1
                 /\ (arg[c] = DOWN /\ i < n - 1) => current_setting_index' = i + 1
                 /\ (n = 0) => current_setting_index' = 0]_vars

\* C9 witness: DOWN at the last index was accepted and left the cursor there
\* (the last call returned False with the cursor on the last setting, whose
\* value both LEFT and RIGHT would have changed).
C9_Witness ==
    \E c \in Inputters :
        /\ running /\ OneStart
        /\ Len(settings) = 2 /\ current_setting_index = 1
        /\ value[2] = 4
        /\ ret[c] = "False" /\ pc[c] = "idle"

C11_TimedOutTable ==
    [][\A w \in Watchdogs :
          (pc[w] = "lock" /\ pc'[w] # "lock" /\ running) =>
              LET idle == now - last_input_time
                  age == now - start_time
              IN /\ (idle > 10) =>
                        /\ pc'[w] = "handle_timeout"
                        /\ reason'[w] = REASON_INPUT
                 /\ (idle <= 10 /\ age > 30) =>
                        /\ pc'[w] = "handle_timeout"
                        /\ reason'[w] = REASON_DURATION
                 /\ (idle <= 10 /\ age <= 30) =>
                        /\ pc'[w] = "loop"
                        /\ reason'[w] = reason[w]]_vars

\* C11 witness: the watchdog has just reported the age reason for a session
\* older than 30 whose last input is at most 10 old.
C11_Witness ==
    \E w \in Watchdogs :
        /\ pc[w] = "handle_timeout" /\ lock = w
        /\ reason[w] = REASON_DURATION
        /\ now - last_input_time <= 10
        /\ now - start_time > 30

\* The change of value the direction table gives to an input d on setting s:
\* minus one increment for RIGHT and plus one for LEFT on the two inverted
\* settings, the other way round on every other setting.
TableDelta(s, d) ==
    IF s.name \in {"front_power_distrib", "front_brake_balance"}
    THEN (IF d = RIGHT THEN 0 - s.increment ELSE s.increment)
    ELSE (IF d = RIGHT THEN s.increment ELSE 0 - s.increment)

\* A recorded adjustment whose full step stays inside the range.
Unsaturated(s, r) ==
    /\ s.min_value <= r.before + TableDelta(s, r.dir)
    /\ r.before + TableDelta(s, r.dir) <= s.max_value

AtBoundary(s, r) ==
    \/ TableDelta(s, r.dir) > 0 /\ r.before = s.max_value
    \/ TableDelta(s, r.dir) < 0 /\ r.before = s.min_value

\* C13: adjust(d) for LEFT or RIGHT returns True exactly when the value after
\* the call differs from the value before it, and with the value on the bound
\* in direction d it returns False and leaves the value there.
C13_ChangedFlag ==
    \A k \in 1..Len(trail) :
        trail[k].dir \in {LEFT, RIGHT} =>
            /\ trail[k].changed <=> (trail[k].after # trail[k].before)
            /\ AtBoundary(settings[1], trail[k]) =>
                   (~trail[k].changed /\ trail[k].after = trail[k].before)

ToLive(s, t) == (t * s.increment) \div SETTING_INCREMENTS[s.name]

\* C15: the keystrokes get_keystrokes emits for a setting, replayed into the
\* live ProSetting of that name from its default, leave the target clamped to
\* the range; and for a target inside the range their number is the number of
\* adjustments that lead from the default to the target.  Stated for the
\* targets that are whole multiples of the increment.
C15_ReplayReachesTarget ==
    epc = "replayed" =>
        \A i \in 1..Len(settings) :
            LET s == settings[i]
                t == settings_dict[s.name]
                goal == ToLive(s, t)
            IN (s.name \in DOMAIN keystrokes /\ t % SETTING_INCREMENTS[s.name] = 0) =>
                   /\ value[i] = Clamp(s, goal)
                   /\ (s.min_value <= goal /\ goal <= s.max_value) =>
                          Len(keystrokes[s.name]) * s.increment =
                              Abs(goal - s.default_value)

\* The script has been generated.
Generated == epc \in {"script", "replayed"}

\* The lines of the script as a set.
ScriptLineSet == { script_lines[i] : i \in 1..Len(script_lines) }

\* C16: for a setting without a fixed start and a target of k increments,
\* get_keystrokes returns |k| keys, all "Right" for k > 0 and all "Left" for
\* k < 0; for the target 0 it returns none and the script has no
\* "; Adjusting" line for the setting.
C16_DeltaTicks ==
    Generated =>
        \A n \in DOMAIN keystrokes :
            LET t == settings_dict[n]
                inc == SETTING_INCREMENTS[n]
                k == t \div inc
            IN (n \notin DOMAIN SETTING_DEFAULTS /\ t % inc = 0) =>
                   /\ Len(keystrokes[n]) = Abs(k)
                   /\ k > 0 => \A j \in 1..Len(keystrokes[n]) : keystrokes[n][j] = "Right"
                   /\ k < 0 => \A j \in 1..Len(keystrokes[n]) : keystrokes[n][j] = "Left"
                   /\ k = 0 => AdjustingLine(n) \notin ScriptLineSet

\* C16 witness: final_drive with target 2 got two "Right" and a block in the
\* script; camber_rear with target 0 got no key and no block.
C16_Witness ==
    /\ Generated
    /\ DOMAIN settings_dict = {"final_drive", "camber_rear"}
    /\ settings_dict["final_drive"] = 2 * One
    /\ settings_dict["camber_rear"] = 0
    /\ Len(setup_settings) = 2
    /\ keystrokes["final_drive"] = <<"Right", "Right">>
    /\ keystrokes["camber_rear"] = <<>>
    /\ AdjustingLine("final_drive") \in ScriptLineSet
    /\ AdjustingLine("camber_rear") \notin ScriptLineSet

RoundHalfAway(n, d) ==
    IF n >= 0 THEN (2 * n + d) \div (2 * d)
    ELSE 0 - ((2 * (0 - n) + d) \div (2 * d))

\* C18: the number of keys is the quotient (target, or start - target,
\* divided by the increment) rounded to the nearest integer with ties away
\* from zero, "Right" for a positive and "Left" for a negative quotient:
\* 0.5 gives 1 key, 1.5 gives 2, 2.5 gives 3, -2.5 gives 3 the other way,
\* less than a half gives none.
C18_TiesAwayFromZero ==
    Generated =>
        \A n \in DOMAIN keystrokes :
            LET num == IF n \in DOMAIN SETTING_DEFAULTS
                       THEN SETTING_DEFAULTS[n] - settings_dict[n]
                       ELSE settings_dict[n]
                ticks == RoundHalfAway(num, SETTING_INCREMENTS[n])
                ks == keystrokes[n]
            IN /\ Len(ks) = Abs(ticks)
               /\ ticks > 0 => \A j \in 1..Len(ks) : ks[j] = "Right"
               /\ ticks < 0 => \A j \in 1..Len(ks) : ks[j] = "Left"

\* The number of "Send {Down}" lines of the script.
DownCount ==
    Cardinality({ i \in 1..Len(script_lines) : script_lines[i] = SendLine(DOWN) })

\* C19: the script has max(0, n - 1) "Send {Down}" lines, n being the number
\* of included settings, len(setup.settings); the skipped settings have no
\* key line.
C19_DownBetweenIncluded ==
    Generated =>
        /\ DownCount = Max2(0, Len(setup_settings) - 1)
        /\ \A i \in 1..Len(auto_skipped_settings) :
               AdjustingLine(auto_skipped_settings[i]) \notin ScriptLineSet

\* How often the name n occurs in CarSetup.settings and in
\* auto_skipped_settings.
TimesIncluded(n) ==
    Cardinality({ i \in 1..Len(setup_settings) : setup_settings[i].name = n })
TimesSkipped(n) ==
    Cardinality({ i \in 1..Len(auto_skipped_settings) :
                    auto_skipped_settings[i] = n })

\* C20: CarSetup partitions the 18 canonical names: a name that is a key of
\* the map is once in settings and not in auto_skipped_settings, a name that
\* is not a key is once in auto_skipped_settings and not in settings.
C20_Partition ==
    epc \in {"setup", "script", "replayed"} =>
        /\ Cardinality(CanonicalNames) = 18
        /\ \A n \in CanonicalNames :
               IF n \in DOMAIN settings_dict
               THEN TimesIncluded(n) = 1 /\ TimesSkipped(n) = 0
               ELSE TimesIncluded(n) = 0 /\ TimesSkipped(n) = 1
        /\ Len(setup_settings) + Len(auto_skipped_settings) = 18

\* C20 witness: a map with the keys final_drive and camber_rear gave two
\* included settings, in the canonical order, and sixteen skipped names.
C20_Witness ==
    /\ epc = "setup"
    /\ DOMAIN settings_dict = {"final_drive", "camber_rear"}
    /\ Len(setup_settings) = 2
    /\ setup_settings[1].name = "final_drive"
    /\ setup_settings[2].name = "camber_rear"
    /\ Len(auto_skipped_settings) = 16
    /\ TimesSkipped("front_power_distrib") = 1

\* C21: every SettingRange load_setting_ranges returns has
\* min_value <= max_value, increment > 0 and
\* min_value <= default_value <= max_value, and a ProSetting made from it
\* starts inside the range.
C21_RangesWellFormed ==
    load_result = "returned" =>
        /\ \A n \in DOMAIN ranges :
               /\ ranges[n].min_value <= ranges[n].max_value
               /\ ranges[n].increment > 0
               /\ ranges[n].min_value <= ranges[n].default_value
               /\ ranges[n].default_value <= ranges[n].max_value
        /\ \A i \in 1..Len(settings) :
               /\ settings[i].min_value <= value[i]
               /\ value[i] <= settings[i].max_value

\* A row with all its fields whose range text is two numbers joined by " to ".
WellFormed(row) ==
    /\ row.has_values /\ row.has_description
    /\ Len(row.parts) = 2
    /\ row.parts[1].numeric /\ row.parts[2].numeric

WellFormedRows == { i \in 1..Len(csv_rows) : WellFormed(csv_rows[i]) }

\* C22: load_setting_ranges skips every malformed row and returns the
\* definitions of the well-formed ones; it fails with an error exactly when
\* no row is well-formed.
C22_MalformedRowsSkipped ==
    load_result # "file" =>
        /\ load_result # "returned" <=> WellFormedRows = {}
        /\ load_result = "returned" =>
               DOMAIN ranges = { RowName(csv_rows[i]) : i \in WellFormedRows }

\* C23: a watchdog that observed a timeout runs handle_timeout to completion
\* and terminates: once it takes no further step its thread is not alive.
C23_WatchdogTerminates ==
    \A w \in Watchdogs :
        (reason[w] # "" /\ pc[w] \in Final) => ~is_alive(w)

\* C24: at every moment at most one watchdog thread of the instance is alive.
C24_OneWatchdog ==
    Cardinality({ w \in Watchdogs : is_alive(w) }) <= 1

SettingNames == [i \in 1..Len(settings) |-> settings[i].name]

\* The requested names the loaded ranges recognize, after normalization.
RequestedNames ==
    { lower_underscore(available_settings[i]) :
          i \in 1..Len(available_settings) } \cap DOMAIN ranges

\* C28: the ProSettings of a session are the requested recognized names in
\* the canonical catalog order, each exactly once, however the names were
\* passed.
C28_CatalogOrder ==
    load_result = "returned" =>
        SettingNames = SelectSeq(all_settings, LAMBDA n : n \in RequestedNames)


\* The place of a canonical name in all_settings.
Position(n) == CHOOSE i \in 1..Len(all_settings) : all_settings[i] = n

Ascending(names) ==
    \A i, j \in 1..Len(names) :
        i < j => Position(names[i]) < Position(names[j])

SetupNames == [i \in 1..Len(setup_settings) |-> setup_settings[i].name]

\* The names of the "; Adjusting" lines of the script, in their order.
AdjustingNames ==
    LET blocks == SelectSeq(script_lines, LAMBDA l : l[1] = "; Adjusting")
    IN [i \in 1..Len(blocks) |-> blocks[i][2]]

\* C29: CarSetup.settings lists the included settings in the canonical
\* order, and the "; Adjusting" blocks of the script are those of the
\* included settings that have keystrokes, in the same order, whatever the
\* insertion order of the map's keys.
C29_CanonicalOrder ==
    /\ epc \in {"setup", "script", "replayed"} =>
           /\ Ascending(SetupNames)
           /\ { SetupNames[i] : i \in 1..Len(SetupNames) } =
                  DOMAIN settings_dict \cap CanonicalNames
    /\ epc \in {"script", "replayed"} =>
           AdjustingNames =
               SelectSeq(SetupNames, LAMBDA n : keystrokes[n] # <<>>)

\* Three settings given in the reverse of the catalog order, each with a
\* block in the script.
C29_Witness ==
    /\ epc = "script"
    /\ key_order = <<"camber_rear", "front_power_distrib", "final_drive">>
    /\ AdjustingNames = <<"final_drive", "front_power_distrib", "camber_rear">>

\* C30: a key of the target map that is a canonical name up to case and
\* spaces for underscores has that setting included, not auto-skipped.
C30_KeysNormalized ==
    epc \in {"setup", "script", "replayed"} =>
        \A k \in DOMAIN settings_dict :
            lower_underscore(k) \in CanonicalNames =>
                /\ \E i \in 1..Len(setup_settings) :
                       setup_settings[i].name = lower_underscore(k)
                /\ \A i \in 1..Len(auto_skipped_settings) :
                       auto_skipped_settings[i] # lower_underscore(k)


\* The fields of instance i the claim speaks of.
Observed(sim) ==
    <<sim.running, sim.current_setting_index, sim.value, sim.last_input_time,
      sim.start_time>>

\* C26: no step of one instance (start, stop, handle_input, a turn of its
\* watchdog) changes the running flag, the index, the values or the
\* timestamps of another instance.
C26_InstancesIndependent ==
    [][\A i, j \in Instances :
          (i # j /\ sims'[i] # sims[i]) =>
              Observed(sims'[j]) = Observed(sims[j])]_vars

\* One instance has been started, adjusted and stopped while the other,
\* started too, is running with its values untouched.
C26_Witness ==
    /\ ~sims[1].running /\ Len(sims[1].threads) > 0
    /\ Len(sims[1].settings) > 0
    /\ sims[1].value # DefaultValues(sims[1].settings)
    /\ sims[2].running
    /\ sims[2].value = DefaultValues(sims[2].settings)
    /\ sims[2].last_input_time = sims[2].start_time

\* C27: a query changes no field of any instance and not the clock, whether
\* the instance is running or not.
C27_QueriesPure ==
    [][answer' # answer => (sims' = sims /\ now' = now)]_vars

\* Queries have been answered for a running and for a stopped instance,
\* the last one after an input moved the selection.
C27_Witness ==
    /\ Len(answer) = 3
    /\ \E i \in Instances :
           /\ answer[1] = i
           /\ ~sims[i].running
           /\ sims[i].current_setting_index = 1
           /\ answer[2] = sims[i].settings[2].name
           /\ sims[i].last_input_time > sims[i].start_time
    /\ \E j \in Instances : sims[j].running


\* C31: the clocks run from start(): a watchdog of a session started once,
\* at time T, reports the inactivity timeout only after T + 10 and the age
\* timeout only after T + 30, however long before start() the simulator
\* was constructed.
C31_ClocksFromStart ==
    [][\A w \in Watchdogs :
          ( /\ pc[w] = "lock" /\ pc'[w] = "handle_timeout"
            /\ OneStart ) =>
              /\ reason'[w] = REASON_INPUT =>
                     now - session_start > INPUT_TIMEOUT
              /\ reason'[w] = REASON_DURATION =>
                     now - session_start > MAX_DURATION]_vars


\* C32: a current_value changes only in the step of an adjust(LEFT) or
\* adjust(RIGHT) on the current setting, to the value adjust computes (one
\* increment further, or the bound), and last_input_time is updated in the
\* same step.
C32_OnlyAdjustWrites ==
    [][\A k \in 1..Len(settings) :
          value'[k] # value[k] =>
              \E c \in Inputters :
                  /\ pc[c] = "apply" /\ pc'[c] = "idle"
                  /\ arg[c] \in {LEFT, RIGHT}
                  /\ k = current_setting_index + 1
                  /\ value'[k] = AdjustValue(settings[k], value[k], arg[c])
                  /\ last_input_time' = now]_vars

\* C33: while running, handle_input returns True when the input changed the
\* index or the current value and False when it changed neither.
C33_ReturnsChanged ==
    [][\A c \in Inputters :
          (pc[c] = "apply" /\ pc'[c] = "idle") =>
              ret'[c] =
                  IF \/ current_setting_index' # current_setting_index
                     \/ value' # value
                  THEN "True" ELSE "False"]_vars


\* C34: of the settings load_setting_ranges returns, those whose direction
\* adjust inverts are exactly those with the default 40%, and every other
\* one has the default 0.
C34_InvertedIffDefault ==
    load_result = "returned" =>
        \A n \in DOMAIN ranges :
            /\ n \in InvertedNames <=> ranges[n].default_value = 40
            /\ n \notin InvertedNames => ranges[n].default_value = 0


\* C35: the value from which the encoder counts the ticks of a setting is
\* the default at which the live session creates it, as the same number or
\* at least as the same percentage; both are zero for the settings without
\* a fixed start.  Read when the ticks have been counted and the session
\* still stands at its defaults.
C35_SameStart ==
    epc = "script" =>
        \A i \in 1..Len(settings) :
            LET s == settings[i]
            IN /\ \/ StartValue(s.name) = value[i]
                  \/ ToLive(s, StartValue(s.name)) = value[i]
               /\ s.name \notin DOMAIN SETTING_DEFAULTS =>
                      (StartValue(s.name) = 0 /\ value[i] = 0)


\* C36: in the SimulatorState of every simulator that has been constructed,
\* 0 <= current_setting_index <= len(settings) - 1, also when none of the
\* requested names is recognized.
C36_IndexInRange ==
    load_result = "returned" =>
        /\ 0 <= current_setting_index
        /\ current_setting_index <= Len(settings) - 1


\* The index of a session of n settings, started at index 0, after the keys
\* of the "Send" lines among the first k lines of the script have been
\* delivered to SimulatorState.handle_input in order.
RECURSIVE CursorAfter(_, _, _)
CursorAfter(lines, k, n) ==
    IF k = 0 THEN 0
    ELSE IF lines[k][1] = "Send"
         THEN NextIndex(CursorAfter(lines, k - 1, n), n, lines[k][2])
         ELSE CursorAfter(lines, k - 1, n)

\* The setting named in the last "; Adjusting" line before line p.
BlockName(lines, p) ==
    LET heads == { q \in 1..(p - 1) : lines[q][1] = "; Adjusting" }
        last == CHOOSE q \in heads : \A r \in heads : r <= q
    IN lines[last][2]

\* C37: when the script is replayed into a fresh session holding the
\* included settings in their order, every Left and Right reaches the
\* session while the current setting is the one named in the "; Adjusting"
\* line before it.
C37_TicksReachNamedSetting ==
    Generated =>
        \A p \in 1..Len(script_lines) :
            script_lines[p] \in {SendLine(LEFT), SendLine(RIGHT)} =>
                SetupNames[CursorAfter(script_lines, p - 1,
                                       Len(setup_settings)) + 1]
                    = BlockName(script_lines, p)


\* C38: running changes from true to false only in a step of stop() or in
\* the timeout callback of a watchdog, and a watchdog enters the callback
\* only when, at its check, more than 10 have passed since the last accepted
\* input or more than 30 since start_time.
C38_NoHealthyClose ==
    /\ [][(running /\ ~running') =>
             \/ \E c \in Controllers :
                    pc[c] = "stop_lock" /\ pc'[c] \in {"stop_join", "idle"}
             \/ \E w \in Watchdogs :
                    /\ pc[w] = "handle_timeout" /\ pc'[w] = "done"
                    /\ reason[w] # ""]_vars
    /\ [][\A w \in Watchdogs :
             (pc[w] = "lock" /\ pc'[w] = "handle_timeout") =>
                 \/ now - last_input_time > INPUT_TIMEOUT
                 \/ now - start_time > MAX_DURATION]_vars

\* A session that was started once and fed an input has been closed by
\* stop() while healthy, its watchdog having checked it and found no
\* timeout.
C38_Witness ==
    /\ ~running /\ OneStart
    /\ last_input_time > 0
    /\ now - last_input_time <= INPUT_TIMEOUT
    /\ now - start_time <= MAX_DURATION
    /\ \A w \in Watchdogs : reason[w] = ""
    /\ \E w \in Watchdogs : pc[w] = "done"


\* C39: no thread requests _timeout_lock while it holds it, and no thread
\* waits for the lock forever.
C39_NoSelfDeadlock ==
    \A w \in Watchdogs :
        /\ ~(pc[w] = "handle_timeout" /\ lock = w)
        /\ pc[w] # "deadlock"

====
